---- MODULE Spec2Model ----
(***************************************************************************)
(* Model of validator/val_sigcrypt.c: the DNSSEC signature-verification    *)
(* core (RR accessors, DS digest match, canonicalizer, date check, the     *)
(* single RRSIG x DNSKEY verifier and the verification drivers).           *)
(*                                                                         *)
(* Byte strings are sequences of 0..255.  The source indexes from 0, TLA+  *)
(* from 1: B(b, o) is the byte at C offset o.  An rr_data entry holds the  *)
(* two rdlen bytes followed by the RDATA, and rr_len is its length.        *)
(***************************************************************************)
EXTENDS Integers, Sequences, FiniteSets, TLC

VARIABLES
    rrset,          \* the RRset under verification (struct ub_packed_rrset_key + data)
    dnskey,         \* the DNSKEY RRset
    ds_rrset,       \* the DS RRset
    ve,             \* struct val_env: date_override
    clock,          \* what time(0) returns, four bytes, most significant first
    littleEndian,   \* byte order of the host the build runs on
    signedOverflow, \* what the build does on int32_t overflow: "wrap" or "math"
    scratch,        \* env->scratch_buffer, the bytes from begin to the position/limit
    given,          \* verdict table standing in for the single-pair verifier, when on
    last            \* the last call: operation, arguments, result, trace

vars == <<rrset, dnskey, ds_rrset, ve, clock, littleEndian, signedOverflow,
          scratch, given, last>>

----------------------------------------------------------------------------
(* Bounds of the model *)

MaxSigs == 2
MaxKeys == 2
MaxRRs  == 1
MaxDs   == 1

----------------------------------------------------------------------------
(* Bytes *)

B(b, o) == b[o + 1]

Slice(b, o, n) == SubSeq(b, o + 1, o + n)

Min(a, b) == IF a < b THEN a ELSE b

tolower(c) == IF c \in 65..90 THEN c + 32 ELSE c

LowerAll(b) == [i \in 1..Len(b) |-> tolower(b[i])]

\* memmove(&t, p, 2) into a uint16_t: the value the host reads
MemU16(b, o) ==
    IF littleEndian THEN B(b, o + 1) * 256 + B(b, o) ELSE B(b, o) * 256 + B(b, o + 1)

Swap16(x) == (x % 256) * 256 + (x \div 256)

ntohs(x) == IF littleEndian THEN Swap16(x) ELSE x

\* the two bytes a uint16_t occupies in memory
HostBytes16(x) ==
    IF littleEndian THEN <<x % 256, x \div 256>> ELSE <<x \div 256, x % 256>>

\* memmove of four bytes followed by ntohl: a 32-bit value as <<high 16 bits, low 16 bits>>
U32(b, o) == <<B(b, o) * 256 + B(b, o + 1), B(b, o + 2) * 256 + B(b, o + 3)>>

\* a - b in 32 bits, wrapping
Diff32(a, b) ==
    LET borrow == IF a[2] < b[2] THEN 1 ELSE 0
    IN  <<(a[1] + 131072 - b[1] - borrow) % 65536, (a[2] + 65536 - b[2]) % 65536>>

Negative32(a) == a[1] >= 32768

Positive32(a) == a[1] < 32768 /\ a # <<0, 0>>

\* a < b as int32_t values
SignedLess32(a, b) ==
    IF Negative32(a) # Negative32(b) THEN Negative32(a)
    ELSE a[1] < b[1] \/ (a[1] = b[1] /\ a[2] < b[2])

\* the int32_t subtraction a - b leaves the range of int32_t
Overflows32(a, b) ==
    /\ Negative32(a) # Negative32(b)
    /\ Negative32(Diff32(a, b)) # Negative32(a)

\* "a - b > 0" on int32_t operands.  Signed overflow is undefined: a build
\* either wraps (ovf = "wrap") or, having rewritten the test as a > b, compares
\* the mathematical values (ovf = "math").
SubPositive(a, b, ovf) ==
    IF Overflows32(a, b) /\ ovf = "math" THEN SignedLess32(b, a)
    ELSE Positive32(Diff32(a, b))

----------------------------------------------------------------------------
(* DNS name operations (util/data/dname.c) and library calls *)

\* query_dname_tolower(b + p): lower-case the labels of the wire name at
\* offset p, in place.  oob: the walk left the bytes of b.
RECURSIVE query_dname_tolower(_, _)
query_dname_tolower(b, p) ==
    IF p >= Len(b) THEN [buf |-> b, oob |-> TRUE]
    ELSE LET l  == B(b, p)
             hi == Min(p + l, Len(b) - 1)
             b2 == [i \in 1..Len(b) |->
                      IF (i - 1) \in (p + 1)..hi THEN tolower(b[i]) ELSE b[i]]
         IN  IF l = 0 THEN [buf |-> b, oob |-> FALSE]
             ELSE IF p + l > Len(b) - 1 THEN [buf |-> b2, oob |-> TRUE]
             ELSE query_dname_tolower(b2, p + l + 1)

\* dname_valid(b + p, maxlen): length of the wire name at offset p when it is
\* an uncompressed name of at most maxlen bytes (and of b), else 0.
RECURSIVE dname_valid_from(_, _, _, _)
dname_valid_from(b, p, len, maxlen) ==
    IF p + len >= Len(b) THEN 0
    ELSE LET l == B(b, p + len)
         IN  IF l = 0 THEN (IF len + 1 > maxlen THEN 0 ELSE len + 1)
             ELSE IF l >= 64 THEN 0
             ELSE IF len + l + 1 >= 255 THEN 0
             ELSE IF len + l + 1 > maxlen THEN 0
             ELSE dname_valid_from(b, p, len + l + 1, maxlen)

dname_valid(b, p, maxlen) == dname_valid_from(b, p, 0, maxlen)

\* query_dname_compare(d1, d2) for two valid wire names: 0 when they are
\* equal up to the case of letters, nonzero otherwise.
query_dname_compare(d1, d2) == IF LowerAll(d1) = LowerAll(d2) THEN 0 ELSE 1

\* dname_signame_label_count: labels of the name, not counting the root or a
\* leading wildcard label.
RECURSIVE count_labels(_, _)
count_labels(d, p) ==
    IF p >= Len(d) \/ B(d, p) = 0 THEN 0 ELSE 1 + count_labels(d, p + B(d, p) + 1)

dname_signame_label_count(d) ==
    IF B(d, 0) = 0 THEN 0
    ELSE IF B(d, 0) = 1 /\ B(d, 1) = 42 THEN count_labels(d, 2)
    ELSE count_labels(d, 0)

\* dname_remove_label(&nm, &len) on the name held as a byte string: drop the
\* leftmost label; the root is left alone.
dname_remove_label(nm) ==
    IF B(nm, 0) = 0 THEN nm ELSE SubSeq(nm, B(nm, 0) + 2, Len(nm))

RECURSIVE keytag_sum(_, _)
keytag_sum(key, i) ==
    IF i >= Len(key) THEN 0
    ELSE (IF i % 2 = 1 THEN B(key, i) ELSE B(key, i) * 256) + keytag_sum(key, i + 1)

\* ldns_calc_keytag_raw: RFC 4034 Appendix B over the DNSKEY RDATA
ldns_calc_keytag_raw(key) ==
    IF Len(key) < 4 THEN 0
    ELSE IF B(key, 3) = 1
         THEN (IF Len(key) > 4
               THEN B(key, Len(key) - 3) * 256 + B(key, Len(key) - 2) ELSE 0)
    ELSE LET ac == keytag_sum(key, 0)
         IN  (ac + ((ac \div 65536) % 65536)) % 65536

LDNS_SHA1 == 1
LDNS_SHA256 == 2
SHA_DIGEST_LENGTH == 20
SHA256_DIGEST_LENGTH == 32
DNSKEY_BIT_ZSK == 256

\* SHA1 / SHA256 as an ideal hash: a digest of the algorithm's size that
\* differs whenever the algorithm or the message differs (messages here are
\* shorter than the digest).
Hash(alg, size, msg) ==
    [i \in 1..size |->
        IF i = 1 THEN alg
        ELSE IF i = 2 THEN Len(msg)
        ELSE IF i - 2 <= Len(msg) THEN msg[i - 2]
        ELSE 0]

----------------------------------------------------------------------------
(* RR accessors *)

rrset_get_count(k) == k.count

rrset_get_sigcount(k) == k.rrsig_count

rr_len(k, idx) == Len(k.rr_data[idx + 1])

rr_data(k, idx) == k.rr_data[idx + 1]

rrset_get_sig_keytag(k, sig_idx) ==
    IF rr_len(k, k.count + sig_idx) < 2 + 18 THEN 0
    ELSE MemU16(rr_data(k, k.count + sig_idx), 2 + 16)

rrset_get_sig_algo(k, sig_idx) ==
    IF rr_len(k, k.count + sig_idx) < 2 + 3 THEN 0
    ELSE B(rr_data(k, k.count + sig_idx), 2 + 2)

dnskey_get_flags(k, idx) ==
    IF rr_len(k, idx) < 2 + 2 THEN 0
    ELSE ntohs(MemU16(rr_data(k, idx), 2))

dnskey_get_algo(k, idx) ==
    IF rr_len(k, idx) < 2 + 4 THEN 0
    ELSE B(rr_data(k, idx), 2 + 3)

ds_get_digest_algo(k, idx) ==
    IF rr_len(k, idx) < 2 + 4 THEN 0
    ELSE B(rr_data(k, idx), 2 + 3)

\* the digest of a DS: <<>> with len 0 stands for the NULL pointer
ds_get_sigdata(k, idx) ==
    IF rr_len(k, idx) < 2 + 5 THEN [isnull |-> TRUE, digest |-> <<>>, len |-> 0]
    ELSE [isnull |-> FALSE,
          digest |-> SubSeq(rr_data(k, idx), 2 + 4 + 1, rr_len(k, idx)),
          len    |-> rr_len(k, idx) - 2 - 4]

ds_digest_size_algo(k, idx) ==
    CASE ds_get_digest_algo(k, idx) = LDNS_SHA1   -> SHA_DIGEST_LENGTH
      [] ds_get_digest_algo(k, idx) = LDNS_SHA256 -> SHA256_DIGEST_LENGTH
      [] OTHER -> 0

dnskey_calc_keytag(k, idx) ==
    ldns_calc_keytag_raw(SubSeq(rr_data(k, idx), 3, rr_len(k, idx)))

----------------------------------------------------------------------------
(* DS digest *)

\* the scratch buffer after ds_create_dnskey_digest has filled and flipped it
ds_digest_source(dnskey_rrset, dnskey_idx) ==
    LET named == query_dname_tolower(dnskey_rrset.dname, 0).buf
    IN  named \o SubSeq(rr_data(dnskey_rrset, dnskey_idx), 3,
                        rr_len(dnskey_rrset, dnskey_idx))

\* ok: the return value; digest: what was written to the digest pointer
ds_create_dnskey_digest(dnskey_rrset, dnskey_idx, ds, ds_idx) ==
    LET b == ds_digest_source(dnskey_rrset, dnskey_idx)
    IN  CASE ds_get_digest_algo(ds, ds_idx) = LDNS_SHA1 ->
               [ok |-> TRUE, buf |-> b, digest |-> Hash(LDNS_SHA1, SHA_DIGEST_LENGTH, b)]
          [] ds_get_digest_algo(ds, ds_idx) = LDNS_SHA256 ->
               [ok |-> TRUE, buf |-> b, digest |-> Hash(LDNS_SHA256, SHA256_DIGEST_LENGTH, b)]
          [] OTHER -> [ok |-> FALSE, buf |-> b, digest |-> <<>>]

\* ds_digest_match_dnskey comparing dslen bytes without the length check
ds_digest_match_dnskey_nolen(buf, alloc, dnskey_rrset, dnskey_idx, ds, ds_idx) ==
    LET digestlen == ds_digest_size_algo(ds, ds_idx)
        sd        == ds_get_sigdata(ds, ds_idx)
        made      == ds_create_dnskey_digest(dnskey_rrset, dnskey_idx, ds, ds_idx)
    IN  IF digestlen = 0 THEN [ret |-> 0, buf |-> buf]
        ELSE IF sd.isnull THEN [ret |-> 0, buf |-> buf]
        ELSE IF ~alloc THEN [ret |-> 0, buf |-> buf]
        ELSE IF ~made.ok THEN [ret |-> 0, buf |-> made.buf]
        ELSE IF SubSeq(made.digest, 1, Min(sd.len, digestlen))
                  # SubSeq(sd.digest, 1, Min(sd.len, digestlen))
             THEN [ret |-> 0, buf |-> made.buf]
        ELSE [ret |-> 1, buf |-> made.buf]

\* buf: the scratch buffer at entry; alloc: region_alloc returns memory.
\* ret: the return value; buf: the scratch buffer afterwards
ds_digest_match_dnskey(buf, alloc, dnskey_rrset, dnskey_idx, ds, ds_idx) ==
    LET digestlen == ds_digest_size_algo(ds, ds_idx)
        sd        == ds_get_sigdata(ds, ds_idx)
        made      == ds_create_dnskey_digest(dnskey_rrset, dnskey_idx, ds, ds_idx)
    IN  IF digestlen = 0 THEN [ret |-> 0, buf |-> buf]
        ELSE IF sd.isnull \/ sd.len # digestlen THEN [ret |-> 0, buf |-> buf]
        ELSE IF ~alloc THEN [ret |-> 0, buf |-> buf]
        ELSE IF ~made.ok THEN [ret |-> 0, buf |-> made.buf]
        ELSE IF made.digest # sd.digest THEN [ret |-> 0, buf |-> made.buf]
        ELSE [ret |-> 1, buf |-> made.buf]

----------------------------------------------------------------------------
(* Canonicalizer *)

\* the buffer after ldns_buffer_write(buf, (uint8_t*)"\001*", 2)
WildcardLabel == <<1, 42>>

RECURSIVE remove_labels(_, _)
remove_labels(nm, n) == IF n <= 0 THEN nm ELSE remove_labels(dname_remove_label(nm), n - 1)

\* sig: the RRSIG RDATA (after rdlen).  can_owner is the offset in buf where
\* the canonical owner starts; asserted is FALSE when log_assert fails.
insert_can_owner(buf, k, sig) ==
    LET rrsig_labels == B(sig, 3)
        fqdn_labels  == dname_signame_label_count(k.dname)
        can_owner    == Len(buf)
        nm           == remove_labels(k.dname, fqdn_labels - rrsig_labels)
    IN  IF rrsig_labels = fqdn_labels
        THEN [buf |-> query_dname_tolower(buf \o k.dname, can_owner).buf,
              can_owner |-> can_owner, can_owner_len |-> Len(k.dname),
              asserted |-> TRUE, rrsig_labels |-> rrsig_labels,
              fqdn_labels |-> fqdn_labels]
        ELSE IF rrsig_labels < fqdn_labels
        THEN [buf |-> query_dname_tolower(buf \o WildcardLabel \o nm, can_owner).buf,
              can_owner |-> can_owner, can_owner_len |-> Len(nm) + 2,
              asserted |-> TRUE, rrsig_labels |-> rrsig_labels,
              fqdn_labels |-> fqdn_labels]
        ELSE [buf |-> buf, can_owner |-> can_owner, can_owner_len |-> 0,
              asserted |-> FALSE, rrsig_labels |-> rrsig_labels,
              fqdn_labels |-> fqdn_labels]

\* p: offset of the length byte of a text field that lies inside b
lowercase_text_field(b, p) ==
    [i \in 1..Len(b) |->
        IF (i - 1) \in (p + 1)..(p + B(b, p)) THEN tolower(b[i]) ELSE b[i]]

SingleNameTypes == {30, 47, 2, 3, 4, 5, 7, 8, 9, 12, 39}
TwoNameTypes    == {14, 17, 6}
PrefNameTypes   == {21, 18, 36, 15}
SigTypes        == {24, 46}

\* query_dname_tolower on two names after another, the second found with dname_valid
two_names_tolower(buf, datstart, maxlen) ==
    LET first == query_dname_tolower(buf, datstart)
        skip  == dname_valid(first.buf, datstart, maxlen)
        secnd == query_dname_tolower(first.buf, datstart + skip)
    IN  [buf |-> secnd.buf, oob |-> first.oob \/ secnd.oob]

\* a read of the byte at offset p of the buffer for a text-field length
InBuf(buf, p) == p < Len(buf)

hinfo_tolower(buf, datstart, len) ==
    IF ~InBuf(buf, datstart) THEN [buf |-> buf, oob |-> TRUE]
    ELSE IF len < B(buf, datstart) + 1 THEN [buf |-> buf, oob |-> FALSE]
    ELSE LET b1   == lowercase_text_field(buf, datstart)
             len2 == len - (B(b1, datstart) + 1)
             dat2 == datstart + B(b1, datstart) + 1
         IN  IF ~InBuf(b1, dat2) THEN [buf |-> b1, oob |-> TRUE]
             ELSE IF len2 < B(b1, dat2) + 1 THEN [buf |-> b1, oob |-> FALSE]
             ELSE [buf |-> lowercase_text_field(b1, dat2), oob |-> FALSE]

\* skip n text fields, then lower-case the name that follows
RECURSIVE naptr_tolower(_, _, _, _)
naptr_tolower(buf, datstart, len, n) ==
    IF n = 0
    THEN (IF len < 1 THEN [buf |-> buf, oob |-> FALSE]
          ELSE query_dname_tolower(buf, datstart))
    ELSE IF ~InBuf(buf, datstart) THEN [buf |-> buf, oob |-> TRUE]
    ELSE IF len < B(buf, datstart) + 1 THEN [buf |-> buf, oob |-> FALSE]
    ELSE naptr_tolower(buf, datstart + B(buf, datstart) + 1,
                       len - (B(buf, datstart) + 1), n - 1)

\* buf: the buffer with its position just after the rdata; type: the RRset
\* type in host order; len: rr_len of the RR just written
canonicalize_rdata(buf, type, len) ==
    LET datstart == Len(buf) - len + 2
    IN  CASE type \in SingleNameTypes -> query_dname_tolower(buf, datstart)
          [] type \in TwoNameTypes -> two_names_tolower(buf, datstart, len - 2)
          [] type = 13 -> hinfo_tolower(buf, datstart, len - 2)
          [] type \in PrefNameTypes ->
               IF len < 2 + 2 + 1 THEN [buf |-> buf, oob |-> FALSE]
               ELSE query_dname_tolower(buf, datstart + 2)
          [] type \in SigTypes ->
               IF len < 2 + 18 + 1 THEN [buf |-> buf, oob |-> FALSE]
               ELSE query_dname_tolower(buf, datstart + 18)
          [] type = 26 ->
               IF len < 2 + 2 + 1 THEN [buf |-> buf, oob |-> FALSE]
               ELSE two_names_tolower(buf, datstart + 2, len - 2 - 2)
          [] type = 35 ->
               IF len < 2 + 4 THEN [buf |-> buf, oob |-> FALSE]
               ELSE naptr_tolower(buf, datstart + 4, len - (2 + 4), 3)
          [] type = 33 ->
               IF len < 2 + 6 + 1 THEN [buf |-> buf, oob |-> FALSE]
               ELSE query_dname_tolower(buf, datstart + 6)
          [] OTHER -> [buf |-> buf, oob |-> FALSE]

\* the loop over the data RRs of rrset_canonical, from RR i on.  c carries
\* the buffer, the canonical owner (set: can_owner is not NULL) and the flags.
RECURSIVE canonical_rrs(_, _, _, _)
canonical_rrs(c, k, sig, i) ==
    IF i >= k.count THEN c
    ELSE LET own == IF c.set
                    THEN [buf |-> c.buf \o Slice(c.buf, c.can_owner, c.can_owner_len),
                          can_owner |-> c.can_owner,
                          can_owner_len |-> c.can_owner_len, asserted |-> TRUE]
                    ELSE insert_can_owner(c.buf, k, sig)
             b1  == own.buf \o k.type \o k.rrset_class \o Slice(sig, 4, 4)
                       \o rr_data(k, i)
             can == canonicalize_rdata(b1, B(k.type, 0) * 256 + B(k.type, 1), rr_len(k, i))
         IN  canonical_rrs([buf |-> can.buf, set |-> TRUE,
                            can_owner |-> own.can_owner,
                            can_owner_len |-> own.can_owner_len,
                            asserted |-> c.asserted /\ own.asserted,
                            oob |-> c.oob \/ can.oob], k, sig, i + 1)

\* rrset_canonical(buf, k, sig, siglen) with sig the RDATA of RRSIG entry
\* sigentry of k: the buffer is cleared, the sig header written, and the
\* signer name is lower-cased through the sig pointer, that is in entry
\* sigentry of k.  Returns the buffer, the RRset as it is left, and the flags.
rrset_canonical(k, sigentry, siglen) ==
    LET entry == rr_data(k, sigentry)
        sig   == SubSeq(entry, 3, Len(entry))
        hdr   == Slice(sig, 0, siglen)
        low   == query_dname_tolower(entry, 2 + 18).buf
        k2    == [k EXCEPT !.rr_data[sigentry + 1] = low]
        c     == canonical_rrs([buf |-> hdr, set |-> FALSE, can_owner |-> 0,
                                can_owner_len |-> 0, asserted |-> TRUE,
                                oob |-> FALSE], k, sig, 0)
    IN  [ret |-> 1, buf |-> c.buf, rrset |-> k2,
         asserted |-> c.asserted, oob |-> c.oob]

----------------------------------------------------------------------------
(* Date check *)

\* e: [ve, clock, ovf]; b: the bytes the two pointers point into
check_dates(e, b, expi_p, incep_p) ==
    LET expi  == U32(b, expi_p)
        incep == U32(b, incep_p)
        now   == IF U32(e.ve.date_override, 0) # <<0, 0>>
                 THEN U32(e.ve.date_override, 0) ELSE U32(e.clock, 0)
    IN  IF SubPositive(incep, expi, e.ovf) THEN 0
        ELSE IF SubPositive(incep, now, e.ovf) THEN 0
        ELSE IF SubPositive(now, expi, e.ovf) THEN 0
        ELSE 1

----------------------------------------------------------------------------
(* The single RRSIG x DNSKEY verifier *)

sec_status_unchecked == "unchecked"
sec_status_bogus == "bogus"
sec_status_secure == "secure"

Verdicts == {sec_status_secure, sec_status_bogus, sec_status_unchecked}

\* st: [rrset, scratch, calls, canon, asserted, oob, stage].  calls lists the
\* <<key, sig>> pairs the verifier was called on, canon counts the runs of
\* rrset_canonical, asserted is FALSE once a log_assert has failed, stage names
\* the check at which the last call of the verifier returned.
Returned(st, sec, stage) == [sec |-> sec, st |-> [st EXCEPT !.stage = stage]]

dnskey_verify_rrset_sig(st, dk, e, dnskey_idx, sig_idx) ==
    LET k          == st.rrset
        rrnum      == rrset_get_count(k)
        sig        == rr_data(k, rrnum + sig_idx)
        siglen     == rr_len(k, rrnum + sig_idx)
        signer_len == dname_valid(sig, 2 + 18, siglen - 2 - 18)
        signer     == Slice(sig, 2 + 18, signer_len)
        ktag       == dnskey_calc_keytag(dk, dnskey_idx)
        can        == rrset_canonical(k, rrnum + sig_idx, 18 + signer_len)
    IN  IF siglen < 2 + 20 THEN Returned(st, sec_status_bogus, "short")
        ELSE IF (dnskey_get_flags(dk, dnskey_idx) \div DNSKEY_BIT_ZSK) % 2 = 0
             THEN Returned(st, sec_status_bogus, "zsk")
        ELSE IF signer_len = 0 THEN Returned(st, sec_status_bogus, "signer")
        ELSE IF siglen < 2 + 18 + signer_len + 1
             THEN Returned(st, sec_status_bogus, "nosig")
        ELSE IF query_dname_compare(signer, dk.dname) # 0
             THEN Returned(st, sec_status_bogus, "wrongkey")
        ELSE IF Slice(sig, 2, 2) # k.type THEN Returned(st, sec_status_bogus, "type")
        ELSE IF B(sig, 2) # dnskey_get_algo(dk, dnskey_idx)
             THEN Returned(st, sec_status_bogus, "algo")
        ELSE IF Slice(sig, 16, 2) # HostBytes16(ktag)
             THEN Returned(st, sec_status_bogus, "keytag")
        ELSE IF B(sig, 3) > dname_signame_label_count(k.dname)
             THEN Returned(st, sec_status_bogus, "labels")
        ELSE IF check_dates(e, sig, 8, 12) = 0
             THEN Returned(st, sec_status_bogus, "dates")
        ELSE IF can.ret = 0
             THEN Returned(st, sec_status_unchecked, "alloc")
        ELSE [sec |-> sec_status_unchecked,
              st  |-> [st EXCEPT !.rrset = can.rrset, !.scratch = can.buf,
                                 !.asserted = @ /\ can.asserted,
                                 !.oob = @ \/ can.oob,
                                 !.canon = @ + 1,
                                 !.stage = "verify"]]

----------------------------------------------------------------------------
(* Verification drivers *)

\* The call of dnskey_verify_rrset_sig made by a driver.  With giv.on the
\* verdict is taken from the table giv.tab instead of from the verifier.
call_verifier(giv, st, dk, e, dnskey_idx, sig_idx) ==
    LET st1 == [st EXCEPT !.calls = Append(@, <<dnskey_idx, sig_idx>>)]
    IN  IF giv.on
        THEN [sec |-> giv.tab[<<dnskey_idx, sig_idx>>], st |-> st1]
        ELSE dnskey_verify_rrset_sig(st1, dk, e, dnskey_idx, sig_idx)

\* a key is tried when neither "algo != dnskey_get_algo" nor "tag != dnskey_calc_keytag"
key_matches(algo, tag, dk, i) ==
    ~(algo # dnskey_get_algo(dk, i) \/ tag # dnskey_calc_keytag(dk, i))

\* "if(sec == sec_status_secure) return sec;" after a call that returned r
IsSecure(r) == r.sec = sec_status_secure

Bogus(st) == [sec |-> sec_status_bogus, st |-> st]

\* the loop over the keys of dnskeyset_verify_rrset_sig, from key i on;
\* verify_sig_next continues it after the verifier returned r for key i
RECURSIVE verify_sig_keys(_, _, _, _, _, _, _, _)
RECURSIVE verify_sig_next(_, _, _, _, _, _, _, _)
verify_sig_keys(giv, st, dk, e, sig_idx, algo, tag, i) ==
    IF i >= rrset_get_count(dk) THEN Bogus(st)
    ELSE IF ~key_matches(algo, tag, dk, i)
         THEN verify_sig_keys(giv, st, dk, e, sig_idx, algo, tag, i + 1)
    ELSE verify_sig_next(giv, call_verifier(giv, st, dk, e, i, sig_idx),
                         dk, e, sig_idx, algo, tag, i)

verify_sig_next(giv, r, dk, e, sig_idx, algo, tag, i) ==
    IF IsSecure(r) THEN r
    ELSE verify_sig_keys(giv, r.st, dk, e, sig_idx, algo, tag, i + 1)

dnskeyset_verify_rrset_sig(giv, st, dk, e, sig_idx) ==
    verify_sig_keys(giv, st, dk, e, sig_idx,
                    rrset_get_sig_algo(st.rrset, sig_idx),
                    rrset_get_sig_keytag(st.rrset, sig_idx), 0)

\* the loop over the signatures of dnskeyset_verify_rrset, from signature i
\* on; keyset_verify_next continues it after signature i gave r
RECURSIVE keyset_verify_sigs(_, _, _, _, _)
RECURSIVE keyset_verify_next(_, _, _, _, _)
keyset_verify_sigs(giv, st, dk, e, i) ==
    IF i >= rrset_get_sigcount(st.rrset) THEN Bogus(st)
    ELSE keyset_verify_next(giv, dnskeyset_verify_rrset_sig(giv, st, dk, e, i),
                            dk, e, i)

keyset_verify_next(giv, r, dk, e, i) ==
    IF IsSecure(r) THEN r ELSE keyset_verify_sigs(giv, r.st, dk, e, i + 1)

\* dnskeyset_verify_rrset trying the first signature only
first_sig_only(r) == IF IsSecure(r) THEN r ELSE Bogus(r.st)

dnskeyset_verify_rrset_first(giv, st, dk, e) ==
    IF rrset_get_sigcount(st.rrset) = 0 THEN Bogus(st)
    ELSE first_sig_only(dnskeyset_verify_rrset_sig(giv, st, dk, e, 0))

dnskeyset_verify_rrset(giv, st, dk, e) ==
    IF rrset_get_sigcount(st.rrset) = 0 THEN Bogus(st)
    ELSE keyset_verify_sigs(giv, st, dk, e, 0)

\* the loop over the signatures of dnskey_verify_rrset, from signature i on;
\* key_verify_next continues it after the verifier returned r for signature i
RECURSIVE key_verify_sigs(_, _, _, _, _, _)
RECURSIVE key_verify_next(_, _, _, _, _, _)
key_verify_sigs(giv, st, dk, e, dnskey_idx, i) ==
    IF i >= rrset_get_sigcount(st.rrset) THEN Bogus(st)
    ELSE key_verify_next(giv, call_verifier(giv, st, dk, e, dnskey_idx, i),
                         dk, e, dnskey_idx, i)

key_verify_next(giv, r, dk, e, dnskey_idx, i) ==
    IF IsSecure(r) THEN r ELSE key_verify_sigs(giv, r.st, dk, e, dnskey_idx, i + 1)

\* dnskey_verify_rrset answering unchecked for an RRset without signatures
dnskey_verify_rrset_nocheck(giv, st, dk, e, dnskey_idx) ==
    IF rrset_get_sigcount(st.rrset) = 0 THEN [sec |-> sec_status_unchecked, st |-> st]
    ELSE key_verify_sigs(giv, st, dk, e, dnskey_idx, 0)

dnskey_verify_rrset(giv, st, dk, e, dnskey_idx) ==
    IF rrset_get_sigcount(st.rrset) = 0 THEN Bogus(st)
    ELSE key_verify_sigs(giv, st, dk, e, dnskey_idx, 0)

----------------------------------------------------------------------------
(* Inputs *)

NameA    == <<1, 97, 0>>            \* a.
NameAUp  == <<1, 65, 0>>            \* A.
NameB    == <<1, 98, 0>>            \* b.
NameAB   == <<1, 65, 1, 98, 0>>     \* A.b.

TypeA    == <<0, 1>>
TypeNS   == <<0, 2>>
Type1281 == <<5, 1>>
ClassIN  == <<0, 1>>

\* an rr_data entry: rdlen, then the RDATA
Entry(rdata) == <<Len(rdata) \div 256, Len(rdata) % 256>> \o rdata

\* sequences over S of length lo..hi
RECURSIVE SeqsOfLen(_, _)
SeqsOfLen(S, n) ==
    IF n = 0 THEN {<<>>}
    ELSE {Append(q, x) : q \in SeqsOfLen(S, n - 1), x \in S}

SeqsUpTo(S, lo, hi) == UNION {SeqsOfLen(S, n) : n \in lo..hi}

\* DNSKEY RDATA: flags, protocol 3, algorithm, public key
KeyP == <<1, 0, 3, 5, 1>>       \* ZSK, algorithm 5, keytag 0x0505
Key0 == <<1, 0, 3, 0, 1, 5>>    \* ZSK, algorithm 0, keytag 0x0505
Key6 == <<1, 0, 3, 5, 2>>       \* ZSK, algorithm 5, keytag 0x0605
KeyN == <<0, 0, 3, 5, 2>>       \* no ZSK bit, algorithm 5, keytag 0x0505

KeyOptions == {KeyP, Key0, Key6, KeyN}

Ttl     == <<0, 0, 14, 16>>
ExpiFar == <<127, 255, 0, 0>>
Expi4k  == <<0, 0, 16, 0>>
Expi32k == <<0, 0, 128, 0>>
Incep   == <<0, 0, 5, 5>>

\* RRSIG RDATA from its fields
SigRdata(tc, algo, labels, expi, incep, tag, signer, signature) ==
    tc \o <<algo, labels>> \o Ttl \o expi \o incep \o tag \o signer \o signature

\* the RRSIGs of an RRset of type tc: every combination of the fields under
\* study, and the malformed ones
SigOptions(tc) ==
    {SigRdata(tc, algo, labels, ExpiFar, Incep, tag, NameAUp, <<7>>) :
        algo \in {0, 5}, labels \in {1, 3}, tag \in {<<5, 5>>, <<6, 5>>}}
    \cup {SigRdata(tc, 5, 1, Expi4k, Incep, <<5, 5>>, NameAUp, <<7>>),
          SigRdata(tc, 5, 1, Expi32k, Incep, <<5, 5>>, NameAUp, <<7>>),
          SigRdata(TypeNS, 5, 1, ExpiFar, Incep, <<5, 5>>, NameAUp, <<7>>),
          SigRdata(Type1281, 5, 1, ExpiFar, Incep, <<5, 5>>, NameAUp, <<7>>),
          SigRdata(tc, 5, 1, ExpiFar, Incep, <<5, 5>>, NameB, <<7>>),
          SigRdata(tc, 5, 1, ExpiFar, Incep, <<5, 5>>, NameAUp, <<>>),
          SigRdata(tc, 5, 1, ExpiFar, Incep, <<5, 5>>, <<1, 65, 3>>, <<7>>),
          SigRdata(tc, 5, 1, ExpiFar, Incep, <<5, 5>>, <<>>, <<>>)}

RdataOptions == {<<1, 66, 0>>}      \* the name B.

MaxPairSigs == 1
MaxPairKeys == 1

MakeRRset(d, t, rrs, sigs) ==
    [dname |-> d, type |-> t, rrset_class |-> ClassIN,
     count |-> Len(rrs), rrsig_count |-> Len(sigs),
     rr_data |-> [i \in 1..(Len(rrs) + Len(sigs)) |->
                    IF i <= Len(rrs) THEN Entry(rrs[i])
                    ELSE Entry(sigs[i - Len(rrs)])]]

RRsets ==
    UNION {{MakeRRset(d, t, rrs, sigs) :
                d \in {NameA, NameAB},
                rrs \in SeqsUpTo(RdataOptions, 0, MaxRRs),
                sigs \in SeqsUpTo(SigOptions(t), 0, MaxPairSigs)} :
           t \in {TypeA, TypeNS, Type1281}}

KeySet(d, keys) ==
    [dname |-> d, type |-> <<0, 48>>, rrset_class |-> ClassIN,
     count |-> Len(keys), rrsig_count |-> 0,
     rr_data |-> [i \in 1..Len(keys) |-> Entry(keys[i])]]

NoRRset == KeySet(<<0>>, <<>>)

NoGiven == [on |-> FALSE, tab |-> <<>>]

NoCall ==
    [op |-> "none", k |-> 0, s |-> 0, sec |-> "none", ret |-> 0,
     calls |-> <<>>, canon |-> 0,
     asserted |-> TRUE, oob |-> FALSE, stage |-> "none", backend |-> "none"]

Overrides == {<<0, 0, 0, 0>>, <<0, 0, 3, 232>>, <<0, 0, 19, 136>>}   \* unset, 1000, 5000

Clock == <<0, 0, 7, 208>>       \* 2000

Init ==
    /\ rrset \in RRsets
    /\ dnskey \in {KeySet(NameA, keys) : keys \in SeqsUpTo(KeyOptions, 1, MaxPairKeys)}
    /\ ds_rrset = NoRRset
    /\ ve \in {[date_override |-> o] : o \in Overrides}
    /\ clock = Clock
    /\ littleEndian \in BOOLEAN
    /\ signedOverflow \in {"wrap", "math"}
    /\ scratch = <<>>
    /\ given = NoGiven
    /\ last = NoCall

----------------------------------------------------------------------------
(* Calls of the entry points *)

Entered == [rrset |-> rrset, scratch |-> scratch, calls |-> <<>>, canon |-> 0,
            asserted |-> TRUE, oob |-> FALSE, stage |-> "none"]

Env == [ve |-> ve, clock |-> clock, ovf |-> signedOverflow]

\* what the signature backend would answer if asked
Backend == {"ok", "bad", "err"}

\* the state after a call that returned r
Effect(op, k, s, r, backend) ==
    /\ rrset' = r.st.rrset
    /\ scratch' = r.st.scratch
    /\ last' = [op |-> op, k |-> k, s |-> s, sec |-> r.sec, ret |-> 0,
                calls |-> r.st.calls,
                canon |-> r.st.canon, asserted |-> r.st.asserted, oob |-> r.st.oob,
                stage |-> r.st.stage,
                backend |-> IF r.st.stage = "verify" THEN backend ELSE "none"]
    /\ UNCHANGED <<dnskey, ds_rrset, ve, clock, littleEndian, signedOverflow, given>>

KeyIdx == 0..(dnskey.count - 1)
SigIdx == 0..(rrset.rrsig_count - 1)

CallDnskeyVerifyRrsetSig ==
    \E k \in KeyIdx, s \in SigIdx, b \in Backend :
        Effect("dnskey_verify_rrset_sig", k, s,
               call_verifier(given, Entered, dnskey, Env, k, s), b)

CallDnskeysetVerifyRrsetSig ==
    \E s \in SigIdx :
        Effect("dnskeyset_verify_rrset_sig", 0, s,
               dnskeyset_verify_rrset_sig(given, Entered, dnskey, Env, s), "none")

CallDnskeyVerifyRrset ==
    \E k \in KeyIdx :
        Effect("dnskey_verify_rrset", k, 0,
               dnskey_verify_rrset(given, Entered, dnskey, Env, k), "none")

CallDnskeysetVerifyRrset ==
    Effect("dnskeyset_verify_rrset", 0, 0,
           dnskeyset_verify_rrset(given, Entered, dnskey, Env), "none")

Next ==
    \/ CallDnskeyVerifyRrsetSig
    \/ CallDnskeysetVerifyRrsetSig
    \/ CallDnskeyVerifyRrset
    \/ CallDnskeysetVerifyRrset

Spec == Init /\ [][Next]_vars

----------------------------------------------------------------------------
(* The drivers over given verdicts of the single-pair verifier *)

DriverKeyOptions == {KeyP, Key6}

\* RRSIGs by algorithm and key_tag field
DriverSigOptions ==
    {SigRdata(TypeA, algo, 1, ExpiFar, Incep, tag, NameAUp, <<7>>) :
        <<algo, tag>> \in {<<5, <<5, 5>>>>, <<5, <<6, 5>>>>, <<0, <<5, 5>>>>}}

NoPair == <<-1, -1>>

\* the verdict tables over nk keys and ns signatures: every pair has the
\* verdict rest (bogus, or unchecked), except for at most one secure pair
Tables(nk, ns) ==
    LET pairs == (0..(nk - 1)) \X (0..(ns - 1))
    IN  {[p \in pairs |-> IF p = sp THEN sec_status_secure ELSE rest] :
            sp \in pairs \cup {NoPair},
            rest \in {sec_status_bogus, sec_status_unchecked}}

InitDriver ==
    /\ rrset \in {MakeRRset(NameA, TypeA, <<<<192, 0, 2, 1>>>>, sigs) :
                    sigs \in SeqsUpTo(DriverSigOptions, 0, MaxSigs)}
    /\ dnskey \in {KeySet(NameA, keys) : keys \in SeqsUpTo(DriverKeyOptions, 0, MaxKeys)}
    /\ ds_rrset = NoRRset
    /\ ve = [date_override |-> <<0, 0, 0, 0>>]
    /\ clock = Clock
    /\ littleEndian \in BOOLEAN
    /\ signedOverflow = "wrap"
    /\ scratch = <<>>
    /\ given \in {[on |-> TRUE, tab |-> tab] :
                    tab \in Tables(dnskey.count, rrset.rrsig_count)}
    /\ last = NoCall

NextDriver ==
    \/ CallDnskeysetVerifyRrsetSig
    \/ CallDnskeyVerifyRrset
    \/ CallDnskeysetVerifyRrset

SpecDriver == InitDriver /\ [][NextDriver]_vars

----------------------------------------------------------------------------
(* DS digest match *)

DsKeyOptions == {KeyP, Key6}

DsRdata(tag, algo, digest_type, digest) == tag \o <<algo, digest_type>> \o digest

DigestSize(digest_type) ==
    IF digest_type = LDNS_SHA1 THEN SHA_DIGEST_LENGTH ELSE SHA256_DIGEST_LENGTH

\* the DS digest of a key of owner d
DigestOf(digest_type, d, key) == Hash(digest_type, DigestSize(digest_type), d \o key)

FlipLast(b) == [b EXCEPT ![Len(b)] = (@ + 1) % 256]

\* DS records made for the keys of owner a.: the right ones; for one key also
\* one with a byte changed, one byte short, one byte long and one made from
\* the owner name as written in upper case; and the malformed ones
DsOptions ==
    UNION {{DsRdata(<<5, 5>>, 5, t, DigestOf(t, NameA, KeyP)),
            DsRdata(<<6, 5>>, 5, t, DigestOf(t, NameA, Key6)),
            DsRdata(<<5, 5>>, 5, t, FlipLast(DigestOf(t, NameA, KeyP))),
            DsRdata(<<5, 5>>, 5, t, SubSeq(DigestOf(t, NameA, KeyP), 1, DigestSize(t) - 1)),
            DsRdata(<<5, 5>>, 5, t, DigestOf(t, NameA, KeyP) \o <<0>>),
            DsRdata(<<5, 5>>, 5, t, DigestOf(t, NameAUp, KeyP))} :
           t \in {LDNS_SHA1, LDNS_SHA256}}
    \cup {DsRdata(<<5, 5>>, 5, 3, DigestOf(LDNS_SHA1, NameA, KeyP)),
          DsRdata(<<5, 5>>, 5, LDNS_SHA1, <<>>),
          <<5, 5, 5>>}

InitDS ==
    /\ rrset = NoRRset
    /\ dnskey \in {KeySet(d, keys) : d \in {NameA, NameAUp},
                                     keys \in SeqsUpTo(DsKeyOptions, 1, MaxKeys)}
    /\ ds_rrset \in {KeySet(NameA, dss) : dss \in SeqsUpTo(DsOptions, 1, MaxDs)}
    /\ ve = [date_override |-> <<0, 0, 0, 0>>]
    /\ clock = Clock
    /\ littleEndian \in BOOLEAN
    /\ signedOverflow = "wrap"
    /\ scratch = <<>>
    /\ given = NoGiven
    /\ last = NoCall

CallDsDigestMatchDnskey ==
    \E i \in KeyIdx, j \in 0..(ds_rrset.count - 1), alloc \in BOOLEAN :
        LET r == ds_digest_match_dnskey(scratch, alloc, dnskey, i, ds_rrset, j)
        IN  /\ scratch' = r.buf
            /\ last' = [NoCall EXCEPT !.op = "ds_digest_match_dnskey", !.k = i,
                                      !.s = j, !.ret = r.ret,
                                      !.stage = IF alloc THEN "alloc" ELSE "nomem"]
            /\ UNCHANGED <<rrset, dnskey, ds_rrset, ve, clock, littleEndian, signedOverflow,
                          given>>

NextDS == CallDsDigestMatchDnskey

SpecDS == InitDS /\ [][NextDS]_vars

----------------------------------------------------------------------------
(* The canonical owner and the RDATA canonicalization, called on their own *)

MaxOwnerLabels == 3
MaxSigLabels == 3
MaxRdataLen == 4

\* labels of owner names: A, *, bC
LabelOptions == {<<65>>, <<42>>, <<98, 67>>}

RECURSIVE WireName(_)
WireName(labs) ==
    IF labs = <<>> THEN <<0>> ELSE <<Len(labs[1])>> \o labs[1] \o WireName(Tail(labs))

OwnerOptions == {WireName(labs) : labs \in SeqsUpTo(LabelOptions, 0, MaxOwnerLabels)}

\* the types canonicalize_rdata has a case for, and one it has none for (A)
CanTypes == SingleNameTypes \cup TwoNameTypes \cup {13} \cup PrefNameTypes
                \cup SigTypes \cup {26, 35, 33} \cup {1}

\* size of the fixed part that precedes the first name or text field
FixedPart(type) ==
    CASE type \in PrefNameTypes \cup {26} -> 2
      [] type \in SigTypes -> 18
      [] type = 35 -> 4
      [] type = 33 -> 6
      [] OTHER -> 0

Zeros(n) == [i \in 1..n |-> 0]

\* RDATA of a type: the fixed part followed by up to MaxRdataLen bytes that
\* form names and text fields, whole or cut short; and the fixed part cut short
CanRdataOptions(type) ==
    {Zeros(FixedPart(type)) \o t : t \in SeqsUpTo({0, 1, 2, 65}, 0, MaxRdataLen)}
    \cup {Zeros(n) : n \in 0..FixedPart(type)}

CanSig(type, labels) ==
    SigRdata(<<0, type>>, 5, labels, ExpiFar, Incep, <<5, 5>>, NameAUp, <<7>>)

NoCanCall ==
    [op |-> "none", before |-> <<>>, can_owner |-> 0, can_owner_len |-> 0,
     asserted |-> TRUE, oob |-> FALSE]

InitCan ==
    /\ rrset \in {MakeRRset(d, TypeA, <<<<192, 0, 2, 1>>>>, <<CanSig(1, l)>>) :
                    d \in OwnerOptions, l \in 0..MaxSigLabels}
                 \cup UNION {{MakeRRset(NameA, <<0, t>>, <<rd>>, <<CanSig(t, 1)>>) :
                                rd \in CanRdataOptions(t)} : t \in CanTypes}
    /\ dnskey = NoRRset
    /\ ds_rrset = NoRRset
    /\ ve = [date_override |-> <<0, 0, 0, 0>>]
    /\ clock = Clock
    /\ littleEndian = FALSE
    /\ signedOverflow = "wrap"
    /\ scratch = <<>>
    /\ given = NoGiven
    /\ last = NoCanCall

\* the RRSIG RDATA handed to rrset_canonical, and the buffer after its header
\* is written
CanSigRdata == SubSeq(rr_data(rrset, rrset.count), 3, rr_len(rrset, rrset.count))

CanSigHeader == Slice(CanSigRdata, 0, 18 + Len(NameAUp))

CallInsertCanOwner ==
    /\ last.op = "none"
    /\ LET r == insert_can_owner(CanSigHeader, rrset, CanSigRdata)
       IN  /\ scratch' = r.buf
           /\ last' = [op |-> "insert_can_owner", before |-> CanSigHeader,
                       can_owner |-> r.can_owner, can_owner_len |-> r.can_owner_len,
                       asserted |-> r.asserted, oob |-> FALSE]
    /\ UNCHANGED <<rrset, dnskey, ds_rrset, ve, clock, littleEndian, signedOverflow,
                  given>>

\* the call made by rrset_canonical for RR 0: the buffer holds the header, the
\* owner, type, class and TTL, and the RR's entry, and stands just after it
CallCanonicalizeRdata ==
    /\ last.op = "none"
    /\ LET own == insert_can_owner(CanSigHeader, rrset, CanSigRdata)
           b1  == own.buf \o rrset.type \o rrset.rrset_class \o Slice(CanSigRdata, 4, 4)
                     \o rr_data(rrset, 0)
           r   == canonicalize_rdata(b1, B(rrset.type, 0) * 256 + B(rrset.type, 1),
                                     rr_len(rrset, 0))
       IN  /\ own.asserted
           /\ scratch' = r.buf
           /\ last' = [op |-> "canonicalize_rdata", before |-> b1,
                       can_owner |-> own.can_owner, can_owner_len |-> own.can_owner_len,
                       asserted |-> TRUE, oob |-> r.oob]
    /\ UNCHANGED <<rrset, dnskey, ds_rrset, ve, clock, littleEndian, signedOverflow,
                  given>>

NextCan ==
    \/ CallInsertCanOwner
    \/ CallCanonicalizeRdata

SpecCan == InitCan /\ [][NextCan]_vars

----------------------------------------------------------------------------
(* The records as the data model describes them, for stating the properties *)

\* RRSIG s of the RRset: the rr_data entry, and its fields
Rrsig(s) == rr_data(rrset, rrset.count + s)

HasFixedPart(s) == Len(Rrsig(s)) >= 2 + 18

sig_type_covered(s) == Slice(Rrsig(s), 2 + 0, 2)
sig_algorithm(s)    == B(Rrsig(s), 2 + 2)
sig_labels(s)       == B(Rrsig(s), 2 + 3)
sig_expiration(s)   == U32(Rrsig(s), 2 + 8)
sig_inception(s)    == U32(Rrsig(s), 2 + 12)
sig_key_tag(s)      == B(Rrsig(s), 2 + 16) * 256 + B(Rrsig(s), 2 + 17)
sig_signer_len(s)   == dname_valid(Rrsig(s), 2 + 18, Len(Rrsig(s)) - 2 - 18)
sig_signer(s)       == Slice(Rrsig(s), 2 + 18, sig_signer_len(s))

\* DNSKEY k of the key set: RDATA and fields
KeyRdata(k)      == SubSeq(rr_data(dnskey, k), 3, Len(rr_data(dnskey, k)))
key_flags(k)     == B(KeyRdata(k), 0) * 256 + B(KeyRdata(k), 1)
key_algorithm(k) == B(KeyRdata(k), 3)
key_tag(k)       == ldns_calc_keytag_raw(KeyRdata(k))

OwnerLabels == dname_signame_label_count(rrset.dname)

Now == IF ve.date_override # <<0, 0, 0, 0>> THEN U32(ve.date_override, 0)
       ELSE U32(clock, 0)

\* a is after b in serial arithmetic: a - b as a 32-bit signed value is positive
After(a, b) == Positive32(Diff32(a, b))

InWindow(s) ==
    /\ ~After(sig_inception(s), sig_expiration(s))
    /\ ~After(sig_inception(s), Now)
    /\ ~After(Now, sig_expiration(s))

\* preconditions 1-8 of the single-pair verifier, on the fields of the records
Pre1to8(k, s) ==
    /\ HasFixedPart(s)
    /\ sig_signer_len(s) # 0
    /\ Len(Rrsig(s)) >= 2 + 18 + sig_signer_len(s) + 1
    /\ (key_flags(k) \div 256) % 2 = 1
    /\ LowerAll(sig_signer(s)) = LowerAll(dnskey.dname)
    /\ sig_type_covered(s) = rrset.type
    /\ sig_algorithm(s) = key_algorithm(k)
    /\ sig_key_tag(s) = key_tag(k)
    /\ sig_labels(s) <= OwnerLabels

VerdictOf(backend) ==
    CASE backend = "ok"  -> sec_status_secure
      [] backend = "bad" -> sec_status_bogus
      [] backend = "err" -> sec_status_unchecked
      [] OTHER -> "none"

PairCall == last.op = "dnskey_verify_rrset_sig"

----------------------------------------------------------------------------
(* Properties *)

\* C1: a pair that passes all nine preconditions gets the verdict of the
\* signature backend: ok gives secure, bad gives bogus, err gives unchecked.
C1_VerdictFollowsBackend ==
    (PairCall /\ Pre1to8(last.k, last.s) /\ InWindow(last.s))
        => (last.stage = "verify" /\ last.sec = VerdictOf(last.backend))

\* C2: over given verdicts of the pairs, dnskeyset_verify_rrset returns secure
\* exactly when some key that passes the algorithm/keytag filter of some
\* signature verifies secure with it, and bogus otherwise, never unchecked.
C2_SecureIffSomePair ==
    last.op = "dnskeyset_verify_rrset" =>
        /\ last.sec \in {sec_status_secure, sec_status_bogus}
        /\ last.sec = sec_status_secure <=>
             \E s \in SigIdx, k \in KeyIdx :
                /\ key_matches(rrset_get_sig_algo(rrset, s),
                               rrset_get_sig_keytag(rrset, s), dnskey, k)
                /\ given.tab[<<k, s>>] = sec_status_secure

\* C2 witness: secure from a pair that is neither the first key nor the first
\* signature, after pairs that came back unchecked
C2_Witness ==
    /\ last.op = "dnskeyset_verify_rrset"
    /\ last.sec = sec_status_secure
    /\ Len(last.calls) >= 2
    /\ given.tab[last.calls[1]] = sec_status_unchecked
    /\ \E k \in KeyIdx, s \in SigIdx :
          k > 0 /\ s > 0 /\ given.tab[<<k, s>>] = sec_status_secure

\* C3: a pair whose RRSIG algorithm differs from the key's algorithm, or whose
\* RRSIG key_tag differs from the key's keytag, is bogus.
C3_MismatchIsBogus ==
    (PairCall /\ HasFixedPart(last.s)
       /\ (sig_algorithm(last.s) # key_algorithm(last.k)
             \/ sig_key_tag(last.s) # key_tag(last.k)))
        => last.sec = sec_status_bogus

\* C4: a pair that passes preconditions 1-8 and reaches the date check is
\* bogus exactly when inception is after expiration, now is before inception
\* or now is after expiration, on the RRSIG's own sig_inception and
\* sig_expiration fields, in serial arithmetic.
C4_DateWindow ==
    (PairCall /\ Pre1to8(last.k, last.s) /\ last.stage \in {"dates", "verify"})
        => (last.sec = sec_status_bogus <=> ~InWindow(last.s))

\* C5: no call changes a byte of the input RRset or of the DNSKEY set.
C5_InputsUnchanged == [][rrset' = rrset /\ dnskey' = dnskey]_vars

\* C6: a pair whose RRSIG labels exceed the owner's label count is bogus, and
\* insert_can_owner is never entered with rrsig_labels > fqdn_labels.
C6_LabelsInRange ==
    /\ (PairCall /\ HasFixedPart(last.s) /\ sig_labels(last.s) > OwnerLabels)
          => last.sec = sec_status_bogus
    /\ last.asserted

\* C7: with the allocation succeeding, ds_digest_match_dnskey is true exactly
\* when the digest type is SHA-1 or SHA-256, the digest field has that
\* algorithm's size, and the hash of the lower-cased owner name followed by
\* the DNSKEY RDATA equals the digest field.
C7_DigestMatch ==
    (last.op = "ds_digest_match_dnskey" /\ last.stage = "alloc") =>
        LET ds     == SubSeq(rr_data(ds_rrset, last.s), 3, Len(rr_data(ds_rrset, last.s)))
            dtype  == IF Len(ds) >= 4 THEN ds[4] ELSE 0
            digest == SubSeq(ds, 5, Len(ds))
        IN  last.ret = 1 <=>
              /\ dtype \in {LDNS_SHA1, LDNS_SHA256}
              /\ Len(digest) = DigestSize(dtype)
              /\ digest = Hash(dtype, DigestSize(dtype),
                               LowerAll(dnskey.dname) \o KeyRdata(last.k))

\* C7 witness: a SHA-256 DS matches the key of an owner written in upper case
C7_Witness ==
    /\ last.op = "ds_digest_match_dnskey"
    /\ last.ret = 1
    /\ ds_get_digest_algo(ds_rrset, last.s) = LDNS_SHA256
    /\ dnskey.dname = NameAUp

\* C8: an RRset without RRSIGs is bogus for dnskeyset_verify_rrset and for
\* dnskey_verify_rrset, and the single-pair verifier is not called.
C8_NoSigIsBogus ==
    (last.op \in {"dnskeyset_verify_rrset", "dnskey_verify_rrset"}
       /\ rrset.rrsig_count = 0)
        => (last.sec = sec_status_bogus /\ last.calls = <<>>)

\* C8 witness: dnskey_verify_rrset on an RRset without RRSIGs, second key
C8_Witness ==
    /\ last.op = "dnskey_verify_rrset"
    /\ rrset.rrsig_count = 0
    /\ last.k = 1
    /\ last.sec = sec_status_bogus

\* C9: two runs of rrset_canonical in a row for the same RRSIG leave the same
\* bytes in the scratch buffer.
C9_CanonicalIdempotent ==
    [][(PairCall /\ last.stage = "verify"
          /\ last'.op = "dnskey_verify_rrset_sig" /\ last'.stage = "verify"
          /\ last'.s = last.s)
        => scratch' = scratch]_vars

\* C10: dnskeyset_verify_rrset_sig calls the verifier on key i exactly when
\* the key's algorithm is the RRSIG's algorithm and the key's keytag equals
\* the RRSIG's key_tag field read big-endian; it is bogus when no key is
\* selected.
C10_KeysSelected ==
    (last.op = "dnskeyset_verify_rrset_sig" /\ HasFixedPart(last.s)) =>
        /\ \A i \in KeyIdx :
              (\E n \in 1..Len(last.calls) : last.calls[n] = <<i, last.s>>)
                <=> (key_algorithm(i) = sig_algorithm(last.s)
                       /\ key_tag(i) = sig_key_tag(last.s))
        /\ last.calls = <<>> => last.sec = sec_status_bogus

----------------------------------------------------------------------------
(* The canonical owner name *)

\* the labels of a wire name, leftmost first
RECURSIVE LabelsOf(_, _)
LabelsOf(d, p) ==
    IF p >= Len(d) \/ B(d, p) = 0 THEN <<>>
    ELSE <<Slice(d, p + 1, B(d, p))>> \o LabelsOf(d, p + B(d, p) + 1)

\* wire form of a sequence of labels, letters in lower case
RECURSIVE LowerWireName(_)
LowerWireName(labs) ==
    IF labs = <<>> THEN <<0>>
    ELSE <<Len(labs[1])>> \o LowerAll(labs[1]) \o LowerWireName(Tail(labs))

StartsWithWildcard(d) == LabelsOf(d, 0) # <<>> /\ LabelsOf(d, 0)[1] = <<42>>

\* label count of a name: the root and a leading wildcard label do not count
SignedLabelCount(d) ==
    IF StartsWithWildcard(d) THEN Len(LabelsOf(d, 0)) - 1 ELSE Len(LabelsOf(d, 0))

\* the rightmost n labels of the name
RightmostLabels(d, n) ==
    LET labs == LabelsOf(d, 0) IN SubSeq(labs, Len(labs) - n + 1, Len(labs))

\* the owner name that was signed, for RRSIG labels value l
SignedOwner(d, l) ==
    IF l = SignedLabelCount(d) THEN LowerWireName(LabelsOf(d, 0))
    ELSE WildcardLabel \o LowerWireName(RightmostLabels(d, l))

\* what insert_can_owner left in the buffer from can_owner on
CanOwnerWritten == Slice(scratch, last.can_owner, Len(scratch) - last.can_owner)

\* C11: for every owner name and RRSIG labels value L not above the owner's
\* label count, insert_can_owner writes the lower-cased owner when L equals
\* the count, and otherwise the wildcard label followed by exactly the
\* rightmost L labels of the owner and the root, lower-cased; can_owner_len
\* is the length of what was written.  Owners whose leftmost label is a
\* wildcard label are included.
C11_CanonicalOwner ==
    (last.op = "insert_can_owner" /\ sig_labels(0) <= SignedLabelCount(rrset.dname))
        => /\ CanOwnerWritten = SignedOwner(rrset.dname, sig_labels(0))
           /\ last.can_owner_len = Len(SignedOwner(rrset.dname, sig_labels(0)))
           /\ Slice(scratch, 0, last.can_owner) = last.before

\* the same for owners that do not start with a wildcard label
C11_PlainOwner ==
    (/\ last.op = "insert_can_owner"
     /\ sig_labels(0) <= SignedLabelCount(rrset.dname)
     /\ ~StartsWithWildcard(rrset.dname))
        => /\ CanOwnerWritten = SignedOwner(rrset.dname, sig_labels(0))
           /\ last.can_owner_len = Len(SignedOwner(rrset.dname, sig_labels(0)))
           /\ Slice(scratch, 0, last.can_owner) = last.before

----------------------------------------------------------------------------
(* The bounds of the RDATA canonicalization *)

\* the RDATA of RR 0 (without the rdlen prefix) and its offset in the buffer
CanRdata == SubSeq(rr_data(rrset, 0), 3, rr_len(rrset, 0))

CanRdataStart == Len(last.before) - Len(CanRdata)

CanType == B(rrset.type, 0) * 256 + B(rrset.type, 1)

\* a whole name lies in rd from offset p on
RECURSIVE NameFits(_, _)
NameFits(rd, p) ==
    /\ p < Len(rd)
    /\ \/ B(rd, p) = 0
       \/ NameFits(rd, p + B(rd, p) + 1)

\* a whole character-string lies in rd from offset p on
TextFits(rd, p) == p < Len(rd) /\ p + B(rd, p) + 1 <= Len(rd)

\* offset after n character-strings from p on, or -1 when one does not fit
RECURSIVE SkipTexts(_, _, _)
SkipTexts(rd, p, n) ==
    IF n = 0 THEN p
    ELSE IF ~TextFits(rd, p) THEN -1
    ELSE SkipTexts(rd, p + B(rd, p) + 1, n - 1)

\* the first field that the type's canonical form lower-cases lies whole in
\* the RDATA
FirstFieldFits(type, rd) ==
    CASE type \in SingleNameTypes \cup TwoNameTypes -> NameFits(rd, 0)
      [] type = 13 -> TextFits(rd, 0)
      [] type \in PrefNameTypes \cup {26} -> NameFits(rd, 2)
      [] type \in SigTypes -> NameFits(rd, 18)
      [] type = 35 -> SkipTexts(rd, 4, 3) >= 0 /\ NameFits(rd, SkipTexts(rd, 4, 3))
      [] type = 33 -> NameFits(rd, 6)
      [] OTHER -> TRUE

\* C12: for every handled RR type and every RDATA content and length, also
\* empty RDATA (rr_len = 2) and RDATA cut short inside a name or a
\* character-string, canonicalize_rdata reads and writes only bytes of the
\* RR's RDATA copy in the scratch buffer (nothing before it changes, nothing
\* after it is touched), and when the RDATA is too short for the field being
\* processed it returns without changing any byte.
C12_RdataInBounds ==
    last.op = "canonicalize_rdata"
        => /\ ~last.oob
           /\ Len(scratch) = Len(last.before)
           /\ Slice(scratch, 0, CanRdataStart) = Slice(last.before, 0, CanRdataStart)
           /\ ~FirstFieldFits(CanType, CanRdata) => scratch = last.before

====
